---------------------------- MODULE Spec2Model ----------------------------
(***************************************************************************)
(* A model of krokodil's game server: the Session state machine and the    *)
(* Room Registry of src/src/games.rs, and the connection tasks, the        *)
(* Connection Directory, the Exit Tracker and the Janitor of               *)
(* src/src/main.rs.  Every action is one call of the Registry API or one   *)
(* critical section (one `app.lock().await` block) of a task.              *)
(***************************************************************************)
EXTENDS Integers, Sequences, FiniteSets, TLC

(***************************************************************************)
(* Bounds of the model.                                                    *)
(***************************************************************************)
\* Longest word or guess a client sends.
MaxWordLen == 2
\* Longest segment log.
MaxSegments == 3
\* Number of reserve_id calls in one run.
MaxReserve == 2
\* Length of the first candidate id.  games.rs:229 starts at 6; the model
\* starts shorter, over the two-letter alphabet IdChars, so that candidates
\* collide.
InitialIdLen == 1
\* Number of add_player calls in a run of SpecJoin.
MaxJoins == 3
\* Number of connections accepted in a run of SpecApp.
MaxConns == 3
\* Number of inbound events handled in a run of SpecApp.
MaxEvents == 2
\* Number of rooms created in a run of SpecApp.
MaxGames == 1
\* Seconds by which the clock advances at a time.
ClockStep == 301
\* const REMOVE_PLAYER_AFTER: Duration = Duration::from_secs(60 * 5)
REMOVE_PLAYER_AFTER == 300

(***************************************************************************)
(* Input domains.                                                          *)
(***************************************************************************)
Players == {"p1", "p2"}
JoinPlayers == {"p1", "p2", "p3"}
Nicknames == {"n1", "n2"}
Chars == {"a", "A", " "}
\* The id alphabet (Alphanumeric has 62 characters).
IdChars == {"x", "y"}
\* Words and nickname of the calls that set a Session up before the call under test.
SetupWords == {<<"a">>, <<"A", " ">>}
SetupNickname == "n1"
CanvasSizes == {[width |-> 800, height |-> 600], [width |-> 100, height |-> 100]}
DrawingSegments == {[id |-> "s1", stroke |-> "red"],
                    [id |-> "s1", stroke |-> "blue"],
                    [id |-> "s2", stroke |-> "red"]}
SegmentIds == {s.id : s \in DrawingSegments}

RECURSIVE SeqsOfLen(_, _)
SeqsOfLen(S, n) ==
    IF n = 0 THEN {<<>>}
    ELSE {Append(s, x) : s \in SeqsOfLen(S, n - 1), x \in S}

SeqsUpTo(S, n) == UNION {SeqsOfLen(S, k) : k \in 0..n}

Words == SeqsUpTo(Chars, MaxWordLen)

\* The room id of the Session specifications (tests::games_lifecycle uses "test").
TestGameId == <<"t">>

(***************************************************************************)
(* State.                                                                  *)
(***************************************************************************)
VARIABLES
    pending_ids,     \* Games.pending_ids: set of reserved ids
    rooms,           \* Games.rooms: function from live ids to Game
    reserve,         \* position of a running reserve_id call: its len and iteration count
    last,            \* the last Registry/Session API call: op, arguments, result, rooms before
    issued,          \* history: every id reserve_id has returned
    was_live,        \* history: every id that has had a Session
    calls,           \* history: identities passed to add_player, in call order
    connections,     \* AppState.connections: player id -> id of its registered connection
    exited_players,  \* AppState.exited_players: player id -> clock ticks since exited_at
    NEXT_CONN_ID,    \* handlers::NEXT_CONN_ID
    conns,           \* the connection tasks, by conn id: identity, room, position, locals
    tx,              \* by conn id: the messages sent on PlayerConn.tx, in order
    janitor,         \* remove_players_job: position, remove_players, all_modified_games
    handled          \* number of inbound events taken from the sockets

gvars == <<pending_ids, rooms, reserve, last, issued, was_live, calls>>
avars == <<connections, exited_players, NEXT_CONN_ID, conns, tx, janitor, handled>>
vars == <<pending_ids, rooms, reserve, last, issued, was_live, calls,
          connections, exited_players, NEXT_CONN_ID, conns, tx, janitor, handled>>

(***************************************************************************)
(* String functions.                                                       *)
(***************************************************************************)
IsWhitespace(c) == c = " "

RECURSIVE trim_start(_)
trim_start(w) ==
    IF w # <<>> /\ IsWhitespace(Head(w)) THEN trim_start(Tail(w)) ELSE w

RECURSIVE trim_end(_)
trim_end(w) ==
    IF w # <<>> /\ IsWhitespace(w[Len(w)])
    THEN trim_end(SubSeq(w, 1, Len(w) - 1)) ELSE w

\* A trim that forgets the trailing whitespace.
trim_leading_only(w) == trim_start(w)

\* str::trim
trim(w) == trim_end(trim_start(w))

LowerChar(c) == IF c = "A" THEN "a" ELSE c

\* A comparison key that keeps the case.
to_lowercase_keeps_case(w) == w

\* str::to_lowercase
to_lowercase(w) == [i \in 1..Len(w) |-> LowerChar(w[i])]

\* rand_str(len): the strings the generator can return
rand_str(len) == SeqsOfLen(IdChars, len)

(***************************************************************************)
(* Session: struct Game.                                                   *)
(***************************************************************************)
PlayerChoosing(player_id) == [type |-> "playerChoosing", player_id |-> player_id]

PlayerDrawing(player_id, word, canvas, segments) ==
    [type |-> "playerDrawing", player_id |-> player_id, word |-> word,
     drawing |-> [canvas |-> canvas, segments |-> segments]]

IsChoosing(stage) == stage.type = "playerChoosing"
IsDrawing(stage) == stage.type = "playerDrawing"

Player(id, nickname) == [id |-> id, nickname |-> nickname]

PlayerIds(game) == {game.players[i].id : i \in 1..Len(game.players)}

Game_new(id, player) ==
    [id |-> id, stage |-> PlayerChoosing(player.id), players |-> <<player>>,
     history |-> <<>>]

\* An add_player that pushes without looking for the identity.
Game_add_player_always_push(game, player) ==
    [game EXCEPT !.players = Append(@, player)]

Game_add_player(game, player) ==
    IF player.id \in PlayerIds(game) THEN game
    ELSE [game EXCEPT !.players = Append(@, player)]

\* Vec::remove(pos)
RemoveAt(s, pos) == SubSeq(s, 1, pos - 1) \o SubSeq(s, pos + 1, Len(s))

\* iter().position(..): index of the first match, 0 for None
Position(players, id) ==
    IF \E i \in 1..Len(players) : players[i].id = id
    THEN CHOOSE i \in 1..Len(players) :
             /\ players[i].id = id
             /\ \A j \in 1..(i - 1) : players[j].id # id
    ELSE 0

\* A remove_player that leaves the Stage as it is.
Game_remove_player_keeps_stage(game, remove_player_id) ==
    LET pos == Position(game.players, remove_player_id)
    IN  [game |-> [game EXCEPT !.players = IF pos # 0 THEN RemoveAt(@, pos) ELSE @],
         ret |-> pos # 0]

\* Returns [game, ret]: the game after the call and the returned bool.
Game_remove_player(game, remove_player_id) ==
    LET pos == Position(game.players, remove_player_id)
        players == IF pos # 0 THEN RemoveAt(game.players, pos) ELSE game.players
        g1 == [game EXCEPT !.players = players]
    IN  IF players = <<>> THEN [game |-> g1, ret |-> pos # 0]
        ELSE IF game.stage.player_id = remove_player_id
             THEN [game |-> [g1 EXCEPT !.stage = PlayerChoosing(players[1].id)],
                   ret |-> pos # 0]
             ELSE [game |-> g1, ret |-> pos # 0]

Game_add_segment(game, segment) ==
    IF IsDrawing(game.stage)
    THEN [game EXCEPT !.stage.drawing.segments = Append(@, segment)]
    ELSE game

\* A retain that drops only the first segment with the id.
RECURSIVE Retain_first_only(_, _)
Retain_first_only(segments, segment_id) ==
    IF segments = <<>> THEN <<>>
    ELSE IF Head(segments).id # segment_id
         THEN <<Head(segments)>> \o Retain_first_only(Tail(segments), segment_id)
         ELSE Tail(segments)

\* Vec::retain
RECURSIVE Retain(_, _)
Retain(segments, segment_id) ==
    IF segments = <<>> THEN <<>>
    ELSE IF Head(segments).id # segment_id
         THEN <<Head(segments)>> \o Retain(Tail(segments), segment_id)
         ELSE Retain(Tail(segments), segment_id)

Game_remove_segment(game, segment_id) ==
    IF IsDrawing(game.stage)
    THEN [game EXCEPT !.stage.drawing.segments = Retain(@, segment_id)]
    ELSE game

Game_submit_word(game, submitting_player_id, word, canvas) ==
    IF IsChoosing(game.stage) /\ submitting_player_id = game.stage.player_id
    THEN [game |-> [game EXCEPT !.stage =
                        PlayerDrawing(game.stage.player_id, trim(word), canvas, <<>>)],
          ret |-> TRUE]
    ELSE [game |-> game, ret |-> FALSE]

Game_guess_word(game, guessing_player_id, guess) ==
    IF IsDrawing(game.stage) /\ to_lowercase(game.stage.word) = to_lowercase(guess)
    THEN [game |-> [game EXCEPT !.stage = PlayerChoosing(guessing_player_id)],
          ret |-> TRUE]
    ELSE [game |-> game, ret |-> FALSE]

\* An iteration over the drawing from the newest segment to the oldest.
iter_drawing_newest_first(game) ==
    IF IsDrawing(game.stage)
    THEN [i \in 1..Len(game.stage.drawing.segments) |->
             game.stage.drawing.segments[Len(game.stage.drawing.segments) + 1 - i]]
    ELSE <<>>

iter_drawing(game) ==
    IF IsDrawing(game.stage) THEN game.stage.drawing.segments ELSE <<>>

\* impl Clone for Drawing: the clone of a Game carries no segments
Game_clone(game) ==
    IF IsDrawing(game.stage)
    THEN [game EXCEPT !.stage.drawing.segments = <<>>]
    ELSE game


(***************************************************************************)
(* Room Registry: struct Games.                                            *)
(***************************************************************************)
\* An exists that forgets the live rooms.
exists_pending_only(game_id) == game_id \in pending_ids

exists(game_id) == game_id \in pending_ids \/ game_id \in DOMAIN rooms

\* A retry that keeps the length.
NextLen_same(len) == len

\* reserve_id: `len += 1`
NextLen(len) == len + 1

Games_add_player(rs, game_id, player) ==
    IF game_id \in DOMAIN rs
    THEN [rs EXCEPT ![game_id] = Game_add_player(@, player)]
    ELSE [id \in DOMAIN rs \cup {game_id} |->
              IF id = game_id THEN Game_new(game_id, player) ELSE rs[id]]

\* The orders in which `self.rooms.values_mut()` can visit the rooms.
Orders(S) == {o \in SeqsOfLen(S, Cardinality(S)) : {o[i] : i \in 1..Len(o)} = S}

\* A remove_player that also returns the rooms the player was not in.
RECURSIVE ModifiedGames_unmodified_too(_, _, _)
ModifiedGames_unmodified_too(rs, player_id, order) ==
    IF order = <<>> THEN <<>>
    ELSE LET r == Game_remove_player(rs[Head(order)], player_id)
             rest == ModifiedGames_unmodified_too(rs, player_id, Tail(order))
         IN  IF r.game.players # <<>>
             THEN <<Game_clone(r.game)>> \o rest
             ELSE rest

RECURSIVE ModifiedGames(_, _, _)
ModifiedGames(rs, player_id, order) ==
    IF order = <<>> THEN <<>>
    ELSE LET r == Game_remove_player(rs[Head(order)], player_id)
             rest == ModifiedGames(rs, player_id, Tail(order))
         IN  IF r.game.players # <<>> /\ r.ret
             THEN <<Game_clone(r.game)>> \o rest
             ELSE rest

\* A remove_player that keeps the rooms it has emptied.
Games_remove_player_keeps_empty(rs, player_id, order) ==
    [rooms |-> [id \in DOMAIN rs |-> Game_remove_player(rs[id], player_id).game],
     modified |-> ModifiedGames(rs, player_id, order)]

\* Returns [rooms, modified]: the rooms after the call and the returned Vec<Game>.
Games_remove_player(rs, player_id, order) ==
    LET after == [id \in DOMAIN rs |-> Game_remove_player(rs[id], player_id).game]
        empty_games == {id \in DOMAIN rs : after[id].players = <<>>}
    IN  [rooms |-> [id \in DOMAIN rs \ empty_games |-> after[id]],
         modified |-> ModifiedGames(rs, player_id, order)]

(***************************************************************************)
(* Calls of the Registry and Session API.  With rec, `last` records the    *)
(* call: its arguments, its result and the rooms before it.                *)
(***************************************************************************)
NoCall ==
    [op |-> "none", id |-> <<>>, by |-> "", arg |-> <<>>, ret |-> FALSE,
     pre_rooms |-> <<>>, pre_pending |-> {}]

Call(rec, op, id, by, arg, ret) ==
    IF rec
    THEN [op |-> op, id |-> id, by |-> by, arg |-> arg, ret |-> ret,
          pre_rooms |-> rooms, pre_pending |-> pending_ids]
    ELSE NoCall

\* reserve_id, entry: `let mut len = 6`
ReserveStart(rec) ==
    /\ UNCHANGED avars
    /\ ~reserve.active
    /\ Len(issued) < MaxReserve
    /\ reserve' = [active |-> TRUE, len |-> InitialIdLen, iters |-> 0, rec |-> rec]
    /\ UNCHANGED <<pending_ids, rooms, last, issued, was_live, calls>>

\* reserve_id, one iteration of the loop
ReserveStep ==
    /\ UNCHANGED avars
    /\ reserve.active
    /\ \E id \in rand_str(reserve.len) :
          IF ~exists(id)
          THEN /\ pending_ids' = pending_ids \cup {id}
               /\ issued' = Append(issued, id)
               /\ reserve' = [reserve EXCEPT !.active = FALSE, !.iters = @ + 1]
               /\ last' = Call(reserve.rec, "reserve_id", id, "", reserve.iters + 1, id)
          ELSE /\ reserve' = [reserve EXCEPT !.len = NextLen(@), !.iters = @ + 1]
               /\ UNCHANGED <<pending_ids, issued, last>>
    /\ UNCHANGED <<rooms, was_live, calls>>

AddPlayerEffect(game_id, player_id, nickname, rec) ==
    /\ UNCHANGED avars
    /\ ~reserve.active
    /\ rooms' = Games_add_player(rooms, game_id, Player(player_id, nickname))
    /\ last' = Call(rec, "add_player", game_id, player_id, nickname, TRUE)
    /\ was_live' = was_live \cup {game_id}
    /\ UNCHANGED <<pending_ids, reserve, issued>>

CallAddPlayer(game_id, player_id, nickname, rec) ==
    /\ AddPlayerEffect(game_id, player_id, nickname, rec)
    /\ UNCHANGED calls

CallRemovePlayer(player_id, rec) ==
    /\ UNCHANGED avars
    /\ ~reserve.active
    /\ \E order \in Orders(DOMAIN rooms) :
          LET r == Games_remove_player(rooms, player_id, order)
          IN  /\ rooms' = r.rooms
              /\ last' = Call(rec, "remove_player", <<>>, player_id, <<>>, r.modified)
    /\ UNCHANGED <<pending_ids, reserve, issued, was_live, calls>>

CallSubmitWord(game_id, by, word, canvas, rec) ==
    /\ UNCHANGED avars
    /\ ~reserve.active
    /\ game_id \in DOMAIN rooms
    /\ LET r == Game_submit_word(rooms[game_id], by, word, canvas)
       IN  /\ rooms' = [rooms EXCEPT ![game_id] = r.game]
           /\ last' = Call(rec, "submit_word", game_id, by,
                           [word |-> word, canvas |-> canvas], r.ret)
    /\ UNCHANGED <<pending_ids, reserve, issued, was_live, calls>>

CallGuessWord(game_id, by, guess, rec) ==
    /\ UNCHANGED avars
    /\ ~reserve.active
    /\ game_id \in DOMAIN rooms
    /\ LET r == Game_guess_word(rooms[game_id], by, guess)
       IN  /\ rooms' = [rooms EXCEPT ![game_id] = r.game]
           /\ last' = Call(rec, "guess_word", game_id, by, guess, r.ret)
    /\ UNCHANGED <<pending_ids, reserve, issued, was_live, calls>>

CallAddSegment(game_id, segment, rec) ==
    /\ UNCHANGED avars
    /\ ~reserve.active
    /\ game_id \in DOMAIN rooms
    /\ Len(iter_drawing(rooms[game_id])) < MaxSegments
    /\ rooms' = [rooms EXCEPT ![game_id] = Game_add_segment(@, segment)]
    /\ last' = Call(rec, "add_segment", game_id, "", segment, TRUE)
    /\ UNCHANGED <<pending_ids, reserve, issued, was_live, calls>>

CallRemoveSegment(game_id, segment_id, rec) ==
    /\ UNCHANGED avars
    /\ ~reserve.active
    /\ game_id \in DOMAIN rooms
    /\ rooms' = [rooms EXCEPT ![game_id] = Game_remove_segment(@, segment_id)]
    /\ last' = Call(rec, "remove_segment", game_id, "", segment_id, TRUE)
    /\ UNCHANGED <<pending_ids, reserve, issued, was_live, calls>>

(***************************************************************************)
(* The application state of main.rs.                                       *)
(***************************************************************************)
\* HashMap::insert and HashMap::remove on a function with a finite domain
Put(m, k, v) == [x \in DOMAIN m \cup {k} |-> IF x = k THEN v ELSE m[x]]
Del(m, k) == [x \in DOMAIN m \ {k} |-> m[x]]

\* main: AppState { games: Games::new(), connections, exited_players } and
\* the Janitor before its first sweep
AppInit ==
    /\ connections = <<>>
    /\ exited_players = <<>>
    /\ NEXT_CONN_ID = 1
    /\ conns = <<>>
    /\ tx = <<>>
    /\ janitor = [pc |-> "scan", remove_players |-> {}, all_modified_games |-> <<>>]
    /\ handled = 0

\* Games::new()
Init ==
    /\ pending_ids = {}
    /\ rooms = <<>>
    /\ reserve = [active |-> FALSE, len |-> InitialIdLen, iters |-> 0, rec |-> FALSE]
    /\ last = NoCall
    /\ issued = <<>>
    /\ was_live = {}
    /\ calls = <<>>
    /\ AppInit

\* No call has been recorded yet.
Unrecorded == last.op = "none"

(***************************************************************************)
(* SpecSession: the Session operations on one room, as                     *)
(* tests::games_lifecycle drives them.  Calls with the setup inputs bring  *)
(* the Session to a state; then one call with any input is recorded.       *)
(***************************************************************************)
SetupAddPlayer ==
    /\ Unrecorded
    /\ \E p \in Players : CallAddPlayer(TestGameId, p, SetupNickname, FALSE)
SetupRemovePlayer ==
    /\ Unrecorded
    /\ \E p \in Players : CallRemovePlayer(p, FALSE)
SetupSubmitWord ==
    /\ Unrecorded
    /\ \E p \in Players, w \in SetupWords, c \in CanvasSizes :
          CallSubmitWord(TestGameId, p, w, c, FALSE)
SetupGuessWord ==
    /\ Unrecorded
    /\ \E p \in Players, w \in SetupWords : CallGuessWord(TestGameId, p, w, FALSE)
SetupAddSegment ==
    /\ Unrecorded
    /\ \E s \in DrawingSegments : CallAddSegment(TestGameId, s, FALSE)
SetupRemoveSegment ==
    /\ Unrecorded
    /\ \E s \in SegmentIds : CallRemoveSegment(TestGameId, s, FALSE)
SessionSubmitWord ==
    /\ Unrecorded
    /\ \E p \in Players, w \in Words, c \in CanvasSizes :
          CallSubmitWord(TestGameId, p, w, c, TRUE)
SessionGuessWord ==
    /\ Unrecorded
    /\ \E p \in Players, w \in Words : CallGuessWord(TestGameId, p, w, TRUE)

SessionRemovePlayer ==
    /\ Unrecorded
    /\ \E p \in Players : CallRemovePlayer(p, TRUE)
SessionAddSegment ==
    /\ Unrecorded
    /\ \E s \in DrawingSegments : CallAddSegment(TestGameId, s, TRUE)
SessionRemoveSegment ==
    /\ Unrecorded
    /\ \E s \in SegmentIds : CallRemoveSegment(TestGameId, s, TRUE)

NextSession ==
    \/ SetupAddPlayer
    \/ SetupRemovePlayer
    \/ SetupSubmitWord
    \/ SetupGuessWord
    \/ SetupAddSegment
    \/ SetupRemoveSegment
    \/ SessionSubmitWord
    \/ SessionGuessWord
    \/ SessionRemovePlayer
    \/ SessionAddSegment
    \/ SessionRemoveSegment

SpecSession == Init /\ [][NextSession]_vars

(***************************************************************************)
(* Properties of the Session operations.                                   *)
(***************************************************************************)
Spaces(n) == [i \in 1..n |-> " "]

\* t is w without its leading and trailing whitespace.
IsTrimmed(t, w) ==
    /\ t = <<>> \/ (t[1] # " " /\ t[Len(t)] # " ")
    /\ \E i, j \in 0..Len(w) : w = Spaces(i) \o t \o Spaces(j)

SameLetter(c, d) == c = d \/ {c, d} = {"a", "A"}

EqualIgnoringCase(v, w) ==
    /\ Len(v) = Len(w)
    /\ \A i \in 1..Len(v) : SameLetter(v[i], w[i])

\* C1: submit_word(by, word, canvas) returns true iff the Stage is Choosing
\* and by is the chooser; when it returns true the Stage is Drawing with
\* artist = by, secretWord = the trimmed input word, the given canvas and an
\* empty segment log.
C1_SubmitWord ==
    last.op = "submit_word" =>
        LET pre == last.pre_rooms[last.id].stage
            post == rooms[last.id].stage
        IN  /\ last.ret <=> (pre.type = "playerChoosing" /\ pre.player_id = last.by)
            /\ last.ret =>
                  /\ post.type = "playerDrawing"
                  /\ post.player_id = last.by
                  /\ IsTrimmed(post.word, last.arg.word)
                  /\ post.drawing.canvas = last.arg.canvas
                  /\ post.drawing.segments = <<>>

\* A successful submit_word whose input word ended in whitespace.
C1_Witness ==
    /\ last.op = "submit_word"
    /\ last.ret
    /\ last.arg.word # <<>>
    /\ last.arg.word[Len(last.arg.word)] = " "
    /\ rooms[last.id].stage.word # <<>>

\* C2: guess_word(by, guess) returns true iff the Stage is Drawing and guess
\* equals secretWord ignoring case; when it returns true the Stage is Choosing
\* with chooser = by, when it returns false the Stage is unchanged.
C2_GuessWord ==
    last.op = "guess_word" =>
        LET pre == last.pre_rooms[last.id].stage
            post == rooms[last.id].stage
        IN  /\ last.ret <=>
                  (pre.type = "playerDrawing" /\ EqualIgnoringCase(last.arg, pre.word))
            /\ last.ret => post = [type |-> "playerChoosing", player_id |-> last.by]
            /\ ~last.ret => post = pre

\* A successful guess that differs from the secret word in case, by a player
\* other than the artist.
C2_Witness ==
    /\ last.op = "guess_word"
    /\ last.ret
    /\ last.arg # last.pre_rooms[last.id].stage.word
    /\ last.by # last.pre_rooms[last.id].stage.player_id

(***************************************************************************)
(* SpecJoin: add_player calls on a fresh room id; `calls` logs them.       *)
(***************************************************************************)
JoinAddPlayer ==
    /\ Len(calls) < MaxJoins
    /\ \E p \in JoinPlayers, n \in Nicknames :
          /\ AddPlayerEffect(TestGameId, p, n, TRUE)
          /\ calls' = Append(calls, p)

NextJoin == JoinAddPlayer

SpecJoin == Init /\ [][NextJoin]_vars

RosterIds(game) == [i \in 1..Len(game.players) |-> game.players[i].id]

\* The identities of a call log, each at its first occurrence.
RECURSIVE FirstOccurrences(_)
FirstOccurrences(log) ==
    IF log = <<>> THEN <<>>
    ELSE LET n == Len(log)
             front == FirstOccurrences(SubSeq(log, 1, n - 1))
         IN  IF \E i \in 1..(n - 1) : log[i] = log[n] THEN front
             ELSE Append(front, log[n])

\* C10: after any sequence of add_player calls on a fresh room id the roster
\* holds each distinct identity once, in the order of its first join; an
\* add_player with an identity of the roster leaves roster and Stage unchanged.
C10_JoinOrder ==
    /\ calls # <<>> =>
          /\ TestGameId \in DOMAIN rooms
          /\ RosterIds(rooms[TestGameId]) = FirstOccurrences(calls)
    /\ (/\ last.op = "add_player"
        /\ last.id \in DOMAIN last.pre_rooms
        /\ \E i \in 1..Len(last.pre_rooms[last.id].players) :
              last.pre_rooms[last.id].players[i].id = last.by)
       => /\ rooms[last.id].players = last.pre_rooms[last.id].players
          /\ rooms[last.id].stage = last.pre_rooms[last.id].stage

\* A third join repeats the first identity, under another nickname, in a
\* roster of two.
C10_Witness ==
    /\ Len(calls) = 3
    /\ calls[3] = calls[1]
    /\ calls[2] # calls[1]
    /\ last.op = "add_player"
    /\ last.arg # last.pre_rooms[last.id].players[1].nickname
    /\ Len(rooms[TestGameId].players) = 2

(***************************************************************************)
(* SpecRooms: add_player, remove_player and the stage operations over two  *)
(* rooms.  Unrecorded calls bring the Registry to a state; then one        *)
(* remove_player call is recorded.                                         *)
(***************************************************************************)
RoomIds == {<<"x">>, <<"y">>}

RoomsAddPlayer ==
    /\ Unrecorded
    /\ \E id \in RoomIds, p \in Players : CallAddPlayer(id, p, SetupNickname, FALSE)

RoomsSubmitWord ==
    /\ Unrecorded
    /\ \E id \in RoomIds, p \in Players, w \in SetupWords, c \in CanvasSizes :
          CallSubmitWord(id, p, w, c, FALSE)

RoomsGuessWord ==
    /\ Unrecorded
    /\ \E id \in RoomIds, p \in Players, w \in SetupWords :
          CallGuessWord(id, p, w, FALSE)

RoomsRemovePlayer(rec) ==
    /\ Unrecorded
    /\ \E p \in Players : CallRemovePlayer(p, rec)

NextRooms ==
    \/ RoomsAddPlayer
    \/ RoomsSubmitWord
    \/ RoomsGuessWord
    \/ RoomsRemovePlayer(FALSE)
    \/ RoomsRemovePlayer(TRUE)

SpecRooms == Init /\ [][NextRooms]_vars

(***************************************************************************)
(* SpecReserve: reserve_id among add_player and remove_player calls.       *)
(* add_player takes a reserved id or, as the tests do, an id nobody        *)
(* reserved.  Unrecorded calls bring the Registry to a state; then one     *)
(* reserve_id call is recorded.                                            *)
(***************************************************************************)
\* An id nobody reserved that reserve_id can generate.
DirectId == [i \in 1..InitialIdLen |-> "x"]

ReserveAddPlayer ==
    /\ Unrecorded
    /\ \E id \in pending_ids \cup {DirectId} :
          CallAddPlayer(id, "p1", SetupNickname, FALSE)

ReserveRemovePlayer ==
    /\ Unrecorded
    /\ CallRemovePlayer("p1", FALSE)

ReserveIdStart(rec) ==
    /\ Unrecorded
    /\ ReserveStart(rec)

NextReserve ==
    \/ ReserveAddPlayer
    \/ ReserveRemovePlayer
    \/ ReserveIdStart(FALSE)
    \/ ReserveIdStart(TRUE)
    \/ ReserveStep

SpecReserve == Init /\ [][NextReserve]_vars

(***************************************************************************)
(* Properties of the Room Registry.                                        *)
(***************************************************************************)
\* C7: every Session the Registry holds between two calls has a non-empty
\* roster: remove_player destroys the Sessions it empties.
C7_RosterNeverEmpty == \A id \in DOMAIN rooms : rooms[id].players # <<>>

\* A remove_player call emptied and destroyed one room and left a player in
\* the other.
C7_Witness ==
    /\ last.op = "remove_player"
    /\ \E id \in DOMAIN last.pre_rooms : id \notin DOMAIN rooms
    /\ \E id \in DOMAIN rooms :
          Len(rooms[id].players) < Len(last.pre_rooms[id].players)

NoRepeat(log) == \A i, j \in 1..Len(log) : i # j => log[i] # log[j]

\* C8 as claimed: reserve_id never returns an id that an earlier reserve_id
\* call returned, nor the id of a Session that is live or was live earlier;
\* after it returns the id exists.
C8_ReserveIdNeverSeen ==
    /\ NoRepeat(issued)
    /\ last.op = "reserve_id" =>
          /\ last.ret \notin DOMAIN rooms
          /\ last.ret \notin was_live
          /\ exists(last.ret)

\* C8, amended: reserve_id never returns an id that an earlier reserve_id
\* call returned, nor the id of a Session that is live at the call; after it
\* returns the id exists.  (The id of a destroyed Session that nobody had
\* reserved can be returned.)
C8_ReserveIdFresh ==
    /\ NoRepeat(issued)
    /\ last.op = "reserve_id" =>
          /\ last.ret \notin DOMAIN last.pre_rooms
          /\ last.ret \notin last.pre_pending
          /\ last.ret \notin DOMAIN rooms
          /\ exists(last.ret)

\* The second reserve_id call returns while one Session is live and another
\* has been destroyed.
C8_Witness ==
    /\ last.op = "reserve_id"
    /\ Len(issued) = 2
    /\ DOMAIN rooms # {}
    /\ was_live \ DOMAIN rooms # {}

MaxOf(a, b) == IF a >= b THEN a ELSE b

\* Length of the longest id of a set, 0 for the empty set.
Longest(ids) ==
    IF ids = {} THEN 0
    ELSE CHOOSE n \in {Len(id) : id \in ids} : \A id \in ids : Len(id) <= n

\* Collisions possible among `ids`: one at each length from the first
\* candidate's to the longest id's.
CollisionBound(ids) == MaxOf(0, Longest(ids) - InitialIdLen + 1)

\* C9: reserve_id terminates: the candidate grows by one character at each
\* collision, and the number of collisions never exceeds the number of
\* lengths from the first candidate's to the longest existing id's.
C9_ReserveTerminates ==
    /\ reserve.active =>
          /\ reserve.len = InitialIdLen + reserve.iters
          /\ reserve.iters <= CollisionBound(pending_ids \cup DOMAIN rooms)
    /\ last.op = "reserve_id" =>
          /\ Len(last.ret) = InitialIdLen + last.arg - 1
          /\ last.arg <= CollisionBound(last.pre_pending \cup DOMAIN last.pre_rooms) + 1

\* A reserve_id call that returned at its third iteration, after two
\* collisions.
C9_Witness ==
    /\ last.op = "reserve_id"
    /\ last.arg = 3

(***************************************************************************)
(* Outgoing events: `message` serialises an OutgoingEvent with serde.      *)
(* GameStage::PlayerDrawing.word and Drawing.segments are #[serde(skip)].  *)
(***************************************************************************)
\* A serialisation without #[serde(skip)] on PlayerDrawing.word.
SerializeStage_with_word(stage) ==
    IF IsDrawing(stage)
    THEN [type |-> "playerDrawing", playerId |-> stage.player_id, word |-> stage.word,
          drawing |-> [canvas |-> stage.drawing.canvas]]
    ELSE [type |-> "playerChoosing", playerId |-> stage.player_id]

SerializeStage(stage) ==
    IF IsDrawing(stage)
    THEN [type |-> "playerDrawing", playerId |-> stage.player_id,
          drawing |-> [canvas |-> stage.drawing.canvas]]
    ELSE [type |-> "playerChoosing", playerId |-> stage.player_id]

SerializeGame(game) ==
    [id |-> game.id, stage |-> SerializeStage(game.stage),
     players |-> game.players, history |-> game.history]

NoEventId == "null"
\* The correlation id the clients put on their events.
EventId == "e1"

GameEvent(game) ==
    [fromEventId |-> NoEventId, body |-> [type |-> "game", game |-> SerializeGame(game)]]
YouAreEvent(player) ==
    [fromEventId |-> NoEventId, body |-> [type |-> "youAre", player |-> player]]
AddDrawingSegmentEvent(segment) ==
    [fromEventId |-> NoEventId, body |-> [type |-> "addDrawingSegment", segment |-> segment]]
RemoveDrawingSegmentEvent(segment_id) ==
    [fromEventId |-> NoEventId,
     body |-> [type |-> "removeDrawingSegment", segmentId |-> segment_id]]
ClearDrawingEvent == [fromEventId |-> NoEventId, body |-> [type |-> "clearDrawing"]]
WrongGuessEvent(event_id) == [fromEventId |-> event_id, body |-> [type |-> "wrongGuess"]]

\* A send that reaches every channel instead of the one named.
Send_to_every_channel(txs, conn_id, msg) == [d \in DOMAIN txs |-> Append(txs[d], msg)]

\* conn.tx.send(msg)
Send(txs, conn_id, msg) == [txs EXCEPT ![conn_id] = Append(@, msg)]

RECURSIVE SendEach(_, _, _)
SendEach(txs, conn_id, msgs) ==
    IF msgs = <<>> THEN txs
    ELSE SendEach(Send(txs, conn_id, Head(msgs)), conn_id, Tail(msgs))

\* A notification loop that does not look at `skip`.
RECURSIVE Notify_sender_too(_, _, _, _)
Notify_sender_too(txs, players, skip, msg) ==
    IF players = <<>> THEN txs
    ELSE Notify_sender_too(IF Head(players).id \in DOMAIN connections
                           THEN Send(txs, connections[Head(players).id], msg)
                           ELSE txs,
                           Tail(players), skip, msg)

\* The loop of notify_all / notify_others / the Janitor's notification over
\* `players`: each player with a directory entry, but `skip`, is sent msg.
RECURSIVE Notify(_, _, _, _)
Notify(txs, players, skip, msg) ==
    IF players = <<>> THEN txs
    ELSE LET id == Head(players).id
             sent == IF id # skip /\ id \in DOMAIN connections
                     THEN Send(txs, connections[id], msg)
                     ELSE txs
         IN  Notify(sent, Tail(players), skip, msg)

NoPlayer == "nobody"

(***************************************************************************)
(* Connection tasks: handlers::sync and PlayerConnLifecycle.               *)
(***************************************************************************)
ConnIds == DOMAIN conns
UsedIdentities == {conns[c].player_id : c \in ConnIds}
Expired(player_id) ==
    /\ player_id \in DOMAIN exited_players
    /\ exited_players[player_id] > REMOVE_PLAYER_AFTER

SetPc(c, pc, local) == [conns EXCEPT ![c].pc = pc, ![c].local = local]

\* handlers::create_game: reserve_id under the lock
CreateGame ==
    /\ Len(issued) < MaxGames
    /\ ReserveStart(FALSE)

\* handlers::sync behind filters::require_game_id, up to the message loop: the
\* game id exists, the identity is the client's or a new Uuid, the conn id is
\* fetched from NEXT_CONN_ID, the channel is made, and the task runs
\* PlayerConnLifecycle::init.  (Ids are only compared for equality and a
\* reserved id never stops existing, so the steps before init commute with
\* everything else.)
Sync(player_id, game_id, new_player, nickname) ==
    LET c == NEXT_CONN_ID
        player == Player(player_id, nickname)
        games == Games_add_player(rooms, game_id, player)
        game == games[game_id]
        replay == (IF new_player THEN <<YouAreEvent(player)>> ELSE <<>>)
                  \o <<GameEvent(Game_clone(game))>>
                  \o [i \in 1..Len(iter_drawing(game)) |->
                         AddDrawingSegmentEvent(iter_drawing(game)[i])]
    IN  /\ ~reserve.active
        /\ NEXT_CONN_ID <= MaxConns
        /\ exists(game_id)
        /\ new_player => player_id \notin UsedIdentities
        /\ NEXT_CONN_ID' = NEXT_CONN_ID + 1
        /\ connections' = Put(connections, player_id, c)
        /\ exited_players' = Del(exited_players, player_id)
        /\ rooms' = games
        /\ tx' = SendEach(Append(tx, <<>>), c, replay)
        /\ conns' = Append(conns,
              [player_id |-> player_id, game_id |-> game_id, pc |-> "open", local |-> <<>>,
               reconnect |->
                   /\ \E d \in ConnIds : /\ conns[d].player_id = player_id
                                         /\ conns[d].pc \in {"closed", "done"}
                   /\ ~Expired(player_id)
                   /\ player_id \notin janitor.remove_players
                   /\ game_id \in DOMAIN rooms
                   /\ player_id \in PlayerIds(rooms[game_id])])
        /\ was_live' = was_live \cup {game_id}
        /\ UNCHANGED <<pending_ids, reserve, last, issued, calls, janitor, handled>>

\* The inbound stream ends or fails: the message loop of handlers::sync exits.
StreamEnd(c) ==
    /\ conns[c].pc = "open"
    /\ conns' = SetPc(c, "closed", <<>>)
    /\ UNCHANGED <<gvars, connections, exited_players, NEXT_CONN_ID, tx, janitor, handled>>

\* PlayerConnLifecycle::disconnected, and the end of the task: its PlayerConn
\* is dropped, and the directory holds no clone of it any more (it was removed
\* here or replaced by a newer connection's), so the channel is gone.
Disconnected(c) ==
    LET me == conns[c]
    IN  /\ ~reserve.active
        /\ me.pc = "closed"
        /\ connections' =
              IF me.player_id \in DOMAIN connections /\ connections[me.player_id] = c
              THEN Del(connections, me.player_id)
              ELSE connections
        /\ exited_players' = Put(exited_players, me.player_id, 0)
        /\ conns' = SetPc(c, "done", <<>>)
        /\ tx' = [tx EXCEPT ![c] = <<>>]
        /\ UNCHANGED <<gvars, NEXT_CONN_ID, janitor, handled>>

\* `find_mut(&self.game_id).expect("Game")` on a missing room: the task panics
\* and unwinds; the guard is dropped, disconnected() is never called.
Panic(c) ==
    /\ conns' = SetPc(c, "panicked", <<>>)
    /\ UNCHANGED <<gvars, connections, exited_players, NEXT_CONN_ID, tx, janitor>>

\* on_message, SubmitWord: the first critical section
RecvSubmitWord(c, word, canvas) ==
    LET me == conns[c]
    IN  /\ ~reserve.active
        /\ me.pc = "open"
        /\ handled < MaxEvents
        /\ IF me.game_id \notin DOMAIN rooms THEN Panic(c) /\ handled' = handled + 1
           ELSE LET r == Game_submit_word(rooms[me.game_id], me.player_id, word, canvas)
                IN  /\ handled' = handled + 1
                    /\ rooms' = [rooms EXCEPT ![me.game_id] = r.game]
                    /\ conns' = IF r.ret THEN SetPc(c, "submit_clear", Game_clone(r.game))
                                ELSE conns
                    /\ UNCHANGED <<pending_ids, reserve, last, issued, was_live, calls,
                                   connections, exited_players, NEXT_CONN_ID, tx, janitor>>

\* on_message, GuessWord: the first critical section
RecvGuessWord(c, word) ==
    LET me == conns[c]
    IN  /\ ~reserve.active
        /\ me.pc = "open"
        /\ handled < MaxEvents
        /\ handled' = handled + 1
        /\ IF me.game_id \notin DOMAIN rooms THEN Panic(c)
           ELSE LET r == Game_guess_word(rooms[me.game_id], me.player_id, word)
                IN  /\ rooms' = [rooms EXCEPT ![me.game_id] = r.game]
                    /\ conns' = IF r.ret THEN SetPc(c, "notify_game", Game_clone(r.game))
                                ELSE conns
                    /\ tx' = IF r.ret THEN tx ELSE Send(tx, c, WrongGuessEvent(EventId))
                    /\ UNCHANGED <<pending_ids, reserve, last, issued, was_live, calls,
                                   connections, exited_players, NEXT_CONN_ID, janitor>>

\* on_message, AddDrawingSegment: the first critical section
RecvAddSegment(c, segment) ==
    LET me == conns[c]
    IN  /\ ~reserve.active
        /\ me.pc = "open"
        /\ handled < MaxEvents
        /\ handled' = handled + 1
        /\ IF me.game_id \notin DOMAIN rooms THEN Panic(c)
           ELSE /\ Len(iter_drawing(rooms[me.game_id])) < MaxSegments
                /\ rooms' = [rooms EXCEPT ![me.game_id] = Game_add_segment(@, segment)]
                /\ conns' = SetPc(c, "notify_others", AddDrawingSegmentEvent(segment))
                /\ UNCHANGED <<pending_ids, reserve, last, issued, was_live, calls,
                               connections, exited_players, NEXT_CONN_ID, tx, janitor>>

\* on_message, RemoveDrawingSegment: the first critical section
RecvRemoveSegment(c, segment_id) ==
    LET me == conns[c]
    IN  /\ ~reserve.active
        /\ me.pc = "open"
        /\ handled < MaxEvents
        /\ handled' = handled + 1
        /\ IF me.game_id \notin DOMAIN rooms THEN Panic(c)
           ELSE /\ rooms' = [rooms EXCEPT ![me.game_id] = Game_remove_segment(@, segment_id)]
                /\ conns' = SetPc(c, "notify_others", RemoveDrawingSegmentEvent(segment_id))
                /\ UNCHANGED <<pending_ids, reserve, last, issued, was_live, calls,
                               connections, exited_players, NEXT_CONN_ID, tx, janitor>>

\* notify_all(event) and notify_others(event), called at position `at`
NotifyStep(c, at, skip, msg, next_pc, next_local) ==
    LET me == conns[c]
    IN  /\ ~reserve.active
        /\ me.pc = at
        /\ UNCHANGED handled
        /\ IF me.game_id \notin DOMAIN rooms THEN Panic(c)
           ELSE /\ tx' = Notify(tx, rooms[me.game_id].players, skip, msg)
                /\ conns' = SetPc(c, next_pc, next_local)
                /\ UNCHANGED <<gvars, connections, exited_players, NEXT_CONN_ID, janitor>>

\* on_message, SubmitWord: notify_all(ClearDrawing)
NotifyClearDrawing(c) ==
    NotifyStep(c, "submit_clear", NoPlayer, ClearDrawingEvent, "notify_game", conns[c].local)

\* on_message, SubmitWord and GuessWord: notify_all(Game(game))
NotifyGame(c) ==
    NotifyStep(c, "notify_game", NoPlayer, GameEvent(conns[c].local), "open", <<>>)

\* on_message, AddDrawingSegment and RemoveDrawingSegment: notify_others(event)
NotifyOthers(c) ==
    NotifyStep(c, "notify_others", conns[c].player_id, conns[c].local, "open", <<>>)

(***************************************************************************)
(* The Janitor: remove_players_job.  Each pass takes the lock four times.  *)
(***************************************************************************)
JanitorIdle == [pc |-> "scan", remove_players |-> {}, all_modified_games |-> <<>>]

\* First section: collect the players whose exit record is older than
\* REMOVE_PLAYER_AFTER.  A pass that finds none changes nothing in its other
\* three sections and is back at the scan after the next interval.
JanitorScan ==
    /\ ~reserve.active
    /\ janitor.pc = "scan"
    /\ LET expired == {player_id \in DOMAIN exited_players : Expired(player_id)}
       IN  janitor' = IF expired = {} THEN JanitorIdle
                      ELSE [pc |-> "remove", remove_players |-> expired,
                            all_modified_games |-> <<>>]
    /\ UNCHANGED <<gvars, connections, exited_players, NEXT_CONN_ID, conns, tx, handled>>

\* Second section, the loop body: games.remove_player(id) for each collected
\* player, the modified rooms inserted into all_modified_games by room id.
\* all_modified_games.insert(game.id.clone(), game) for each game of the Vec
RECURSIVE InsertAll(_, _)
InsertAll(modified, games) ==
    IF games = <<>> THEN modified
    ELSE InsertAll(Put(modified, Head(games).id, Head(games)), Tail(games))

RECURSIVE RemoveAll(_, _, _)
RemoveAll(games, modified, player_ids) ==
    IF player_ids = <<>> THEN [rooms |-> games, all_modified_games |-> modified]
    ELSE CHOOSE result \in
             {RemoveAll(r.rooms, InsertAll(modified, r.modified), Tail(player_ids)) :
                 r \in {Games_remove_player(games, Head(player_ids), order) :
                           order \in {CHOOSE o \in Orders(DOMAIN games) : TRUE}}} : TRUE

JanitorRemove ==
    /\ ~reserve.active
    /\ janitor.pc = "remove"
    /\ \E player_ids \in Orders(janitor.remove_players) :
          LET r == RemoveAll(rooms, <<>>, player_ids)
          IN  /\ rooms' = r.rooms
              /\ janitor' = [janitor EXCEPT !.pc = "notify",
                                            !.all_modified_games = r.all_modified_games]
    /\ UNCHANGED <<pending_ids, reserve, last, issued, was_live, calls,
                   connections, exited_players, NEXT_CONN_ID, conns, tx, handled>>

\* Third section: every player of each modified room, as the room was when
\* it was modified, is sent that snapshot.
RECURSIVE NotifyModified(_, _)
NotifyModified(txs, game_ids) ==
    IF game_ids = <<>> THEN txs
    ELSE LET game == janitor.all_modified_games[Head(game_ids)]
         IN  NotifyModified(Notify(txs, game.players, NoPlayer, GameEvent(Game_clone(game))),
                            Tail(game_ids))

JanitorNotify ==
    /\ ~reserve.active
    /\ janitor.pc = "notify"
    /\ \E game_ids \in Orders(DOMAIN janitor.all_modified_games) :
          tx' = NotifyModified(tx, game_ids)
    /\ janitor' = [janitor EXCEPT !.pc = "clear"]
    /\ UNCHANGED <<gvars, connections, exited_players, NEXT_CONN_ID, conns, handled>>

\* Fourth section: the exit records of the collected players are dropped.
JanitorClear ==
    /\ ~reserve.active
    /\ janitor.pc = "clear"
    /\ exited_players' = [player_id \in DOMAIN exited_players \ janitor.remove_players |->
                             exited_players[player_id]]
    /\ janitor' = JanitorIdle
    /\ UNCHANGED <<gvars, connections, NEXT_CONN_ID, conns, tx, handled>>

\* Time passes: every exit record not yet older than REMOVE_PLAYER_AFTER ages
\* by ClockStep (older ones stay older).
Tick ==
    /\ \E player_id \in DOMAIN exited_players : ~Expired(player_id)
    /\ exited_players' = [player_id \in DOMAIN exited_players |->
                             IF Expired(player_id) THEN exited_players[player_id]
                             ELSE exited_players[player_id] + ClockStep]
    /\ UNCHANGED <<gvars, connections, NEXT_CONN_ID, conns, tx, janitor, handled>>

(***************************************************************************)
(* The application: rooms are created, clients connect, reconnect, send    *)
(* events and leave, the Janitor sweeps, time passes.                      *)
(***************************************************************************)
\* The identities Uuid::new_v4() hands out, in the order it hands them out.
AppPlayers == <<"p1", "p2">>
AppWord == <<"a">>
AppGuesses == {<<"A">>, <<" ">>}
AppCanvas == [width |-> 800, height |-> 600]
AppSegment == [id |-> "s1", stroke |-> "red"]

NextApp ==
    \/ CreateGame
    \/ ReserveStep
    \/ \E game_id \in pending_ids \cup DOMAIN rooms :
          \/ \E player_id \in UsedIdentities : Sync(player_id, game_id, FALSE, SetupNickname)
          \/ /\ Cardinality(UsedIdentities) < Len(AppPlayers)
             /\ Sync(AppPlayers[Cardinality(UsedIdentities) + 1], game_id, TRUE, SetupNickname)
    \/ \E c \in ConnIds : RecvSubmitWord(c, AppWord, AppCanvas)
    \/ \E c \in ConnIds, word \in AppGuesses : RecvGuessWord(c, word)
    \/ \E c \in ConnIds : RecvAddSegment(c, AppSegment)
    \/ \E c \in ConnIds : RecvRemoveSegment(c, AppSegment.id)
    \/ \E c \in ConnIds : NotifyClearDrawing(c)
    \/ \E c \in ConnIds : NotifyGame(c)
    \/ \E c \in ConnIds : NotifyOthers(c)
    \/ \E c \in ConnIds : StreamEnd(c)
    \/ \E c \in ConnIds : Disconnected(c)
    \/ JanitorScan
    \/ JanitorRemove
    \/ JanitorNotify
    \/ JanitorClear
    \/ Tick

SpecApp == Init /\ [][NextApp]_vars

\* Every pc a connection task can be at is one of these.
AppTypeOK ==
    /\ \A c \in ConnIds :
          conns[c].pc \in {"open", "submit_clear", "notify_game", "notify_others",
                           "closed", "done", "panicked"}
    /\ janitor.pc \in {"scan", "remove", "notify", "clear"}
    /\ \A player_id \in DOMAIN connections : connections[player_id] \in ConnIds

(***************************************************************************)
(* The connection lifecycle alone: clients connect, reconnect and leave,   *)
(* the Janitor sweeps, time passes; no client events.                      *)
(***************************************************************************)
NextLife ==
    \/ CreateGame
    \/ ReserveStep
    \/ \E game_id \in pending_ids \cup DOMAIN rooms :
          \/ \E player_id \in UsedIdentities : Sync(player_id, game_id, FALSE, SetupNickname)
          \/ /\ Cardinality(UsedIdentities) < Len(AppPlayers)
             /\ Sync(AppPlayers[Cardinality(UsedIdentities) + 1], game_id, TRUE, SetupNickname)
    \/ \E c \in ConnIds : StreamEnd(c)
    \/ \E c \in ConnIds : Disconnected(c)
    \/ JanitorScan
    \/ JanitorRemove
    \/ JanitorNotify
    \/ JanitorClear
    \/ Tick

SpecLife == Init /\ [][NextLife]_vars

\* remove_players_job: the critical section its loop is at
Janitor == JanitorScan \/ JanitorRemove \/ JanitorNotify \/ JanitorClear

\* The Janitor's loop never stops, a critical section ends, time passes.
FairLife ==
    /\ SpecLife
    /\ WF_vars(ReserveStep)
    /\ WF_vars(Janitor)
    /\ WF_vars(Tick)

AppIdentities == {AppPlayers[i] : i \in DOMAIN AppPlayers}
InRoster(player_id, game_id) ==
    game_id \in DOMAIN rooms /\ player_id \in PlayerIds(rooms[game_id])
IsOpen(c) == conns[c].pc \notin {"closed", "done", "panicked"}
IsCurrent(c) ==
    conns[c].player_id \in DOMAIN connections /\ connections[conns[c].player_id] = c

\* C3: in every reachable state the chooser or artist of every existing
\* Session is a member of that Session's roster.
C3_StagePlayerInRoster ==
    \A game_id \in DOMAIN rooms : rooms[game_id].stage.player_id \in PlayerIds(rooms[game_id])

\* C4: a player who disconnected and opened a new connection with the same
\* identity before the grace period elapsed is not removed by the Janitor from
\* a room they belong to while that newer connection is open and registered.
C4_ReconnectedNeverEvicted ==
    [][\A c \in ConnIds :
          (/\ conns[c].reconnect
           /\ IsOpen(c)
           /\ IsCurrent(c)
           /\ janitor.pc = "remove"
           /\ janitor'.pc = "notify")
          => \A game_id \in DOMAIN rooms :
                InRoster(conns[c].player_id, game_id)
                => /\ game_id \in DOMAIN rooms'
                   /\ conns[c].player_id \in PlayerIds(rooms'[game_id])]_vars

\* The player's connections have all ended, their disconnect handlers have run,
\* and no connection is opened any more.
Gone(player_id) ==
    /\ \E c \in ConnIds : conns[c].player_id = player_id
    /\ \A c \in ConnIds : conns[c].player_id = player_id => conns[c].pc = "done"
    /\ NEXT_CONN_ID > MaxConns

\* C5: with the Janitor scheduled fairly, a player whose last connection has
\* ended and who never connects again is eventually in no roster.
C5_GoneEventuallyEvicted ==
    \A player_id \in AppIdentities :
        Gone(player_id) ~> (\A game_id \in DOMAIN rooms : ~InRoster(player_id, game_id))

\* C6: the disconnect handler of the directory's current connection removes
\* the entry and records the exit time; the disconnect handler of a superseded
\* connection leaves the directory and the exit tracker unchanged.
C6_DisconnectOnlyIfCurrent ==
    [][\A c \in ConnIds :
          (conns[c].pc = "closed" /\ conns'[c].pc = "done")
          => IF IsCurrent(c)
             THEN /\ conns[c].player_id \notin DOMAIN connections'
                  /\ conns[c].player_id \in DOMAIN exited_players'
                  /\ exited_players'[conns[c].player_id] = 0
             ELSE UNCHANGED <<connections, exited_players>>]_vars

(***************************************************************************)
(* SpecCreate: add_player on reserved and unreserved ids.  Unrecorded      *)
(* reserve_id, add_player and remove_player calls bring the Registry to a  *)
(* state; then one add_player call is recorded.                            *)
(***************************************************************************)
CreateReserveId ==
    /\ Unrecorded
    /\ ReserveStart(FALSE)

CreateSetupAddPlayer ==
    /\ Unrecorded
    /\ \E id \in pending_ids \cup {DirectId}, p \in Players :
          CallAddPlayer(id, p, SetupNickname, FALSE)

CreateRemovePlayer ==
    /\ Unrecorded
    /\ \E p \in Players : CallRemovePlayer(p, FALSE)

CreateAddPlayer ==
    /\ Unrecorded
    /\ \E id \in pending_ids \cup {DirectId}, p \in Players, n \in Nicknames :
          CallAddPlayer(id, p, n, TRUE)

NextCreate ==
    \/ CreateReserveId
    \/ ReserveStep
    \/ CreateSetupAddPlayer
    \/ CreateRemovePlayer
    \/ CreateAddPlayer

SpecCreate == Init /\ [][NextCreate]_vars

\* C11, first half: add_player(id, identity) on an id with no live Session
\* creates a Session in Stage Choosing whose chooser is the identity and whose
\* roster is [identity]; the other Sessions are untouched.
C11_SessionCreated ==
    (last.op = "add_player" /\ last.id \notin DOMAIN last.pre_rooms)
    => /\ DOMAIN rooms = DOMAIN last.pre_rooms \cup {last.id}
       /\ rooms[last.id] =
             [id |-> last.id,
              stage |-> [type |-> "playerChoosing", player_id |-> last.by],
              players |-> <<[id |-> last.by, nickname |-> last.arg]>>,
              history |-> <<>>]
       /\ \A id \in DOMAIN last.pre_rooms : rooms[id] = last.pre_rooms[id]

\* C11: add_player(id, identity) on an id with no live Session creates a
\* Session in Stage Choosing with chooser = identity and roster = [identity],
\* and after any add_player(id, ...) call the id is not pending: the pending
\* set and the set of live Session ids are disjoint.
C11_AddPlayerClearsPending ==
    /\ C11_SessionCreated
    /\ last.op = "add_player" => last.id \notin pending_ids
    /\ pending_ids \cap DOMAIN rooms = {}

C12_WitnessLast ==
    /\ last.op = "remove_player"
    /\ TestGameId \in DOMAIN last.pre_rooms
    /\ Len(last.pre_rooms[TestGameId].players) = 1
    /\ TestGameId \notin DOMAIN rooms

\* C13: Registry remove_player(identity) removes the identity from every
\* roster and returns exactly one snapshot for each Session that contained the
\* identity and still has members; Sessions that did not contain it and
\* Sessions left empty, which are destroyed, are not in the returned list.
C13_RemovePlayerReturns ==
    last.op = "remove_player" =>
       LET pre == last.pre_rooms
           had == {id \in DOMAIN pre : last.by \in PlayerIds(pre[id])}
           emptied == {id \in had : Len(pre[id].players) = 1}
       IN  /\ \A id \in DOMAIN rooms : last.by \notin PlayerIds(rooms[id])
           /\ DOMAIN rooms = DOMAIN pre \ emptied
           /\ \A id \in DOMAIN pre \ had : rooms[id].players = pre[id].players
           /\ {last.ret[i].id : i \in 1..Len(last.ret)} = had \ emptied
           /\ Len(last.ret) = Cardinality(had \ emptied)
           /\ \A i \in 1..Len(last.ret) :
                 /\ last.ret[i].players = rooms[last.ret[i].id].players
                 /\ last.ret[i].stage.type = rooms[last.ret[i].id].stage.type
                 /\ last.ret[i].stage.player_id = rooms[last.ret[i].id].stage.player_id

\* Of two rooms the call emptied one and returned the other.
C13_Witness ==
    /\ last.op = "remove_player"
    /\ Cardinality(DOMAIN last.pre_rooms) = 2
    /\ Cardinality(DOMAIN rooms) = 1
    /\ Len(last.ret) = 1

\* Of two rooms the call returned one and the identity was not in the other.
C13_WitnessUntouched ==
    /\ last.op = "remove_player"
    /\ Cardinality(DOMAIN rooms) = 2
    /\ Len(last.ret) = 1

(***************************************************************************)
(* SpecEvents: the connection tasks without the Janitor: clients connect,  *)
(* reconnect, send events and leave.  No room is ever destroyed.           *)
(***************************************************************************)
NextEvents ==
    \/ CreateGame
    \/ ReserveStep
    \/ \E game_id \in pending_ids \cup DOMAIN rooms :
          \/ \E player_id \in UsedIdentities : Sync(player_id, game_id, FALSE, SetupNickname)
          \/ /\ Cardinality(UsedIdentities) < Len(AppPlayers)
             /\ Sync(AppPlayers[Cardinality(UsedIdentities) + 1], game_id, TRUE, SetupNickname)
    \/ \E c \in ConnIds : RecvSubmitWord(c, AppWord, AppCanvas)
    \/ \E c \in ConnIds, word \in AppGuesses : RecvGuessWord(c, word)
    \/ \E c \in ConnIds : RecvAddSegment(c, AppSegment)
    \/ \E c \in ConnIds : RecvRemoveSegment(c, AppSegment.id)
    \/ \E c \in ConnIds : NotifyClearDrawing(c)
    \/ \E c \in ConnIds : NotifyGame(c)
    \/ \E c \in ConnIds : NotifyOthers(c)
    \/ \E c \in ConnIds : StreamEnd(c)
    \/ \E c \in ConnIds : Disconnected(c)

SpecEvents == Init /\ [][NextEvents]_vars

\* A guess that guess_word rejects, received on connection c
GuessRejected(c, word) ==
    /\ conns[c].game_id \in DOMAIN rooms
    /\ ~Game_guess_word(rooms[conns[c].game_id], conns[c].player_id, word).ret
    /\ RecvGuessWord(c, word)

\* A word submission that submit_word rejects, received on connection c
SubmitRejected(c, word, canvas) ==
    /\ conns[c].game_id \in DOMAIN rooms
    /\ ~Game_submit_word(rooms[conns[c].game_id], conns[c].player_id, word, canvas).ret
    /\ RecvSubmitWord(c, word, canvas)

\* C14: a rejected guess puts exactly one wrong-guess notice, carrying the
\* event's id, on the guessing connection's own channel and nothing on any
\* other channel; a rejected word submission puts nothing on any channel;
\* neither changes any Session.
C14_RuleViolation ==
    [][\A c \in ConnIds :
          /\ \A word \in AppGuesses :
                GuessRejected(c, word) =>
                    /\ rooms' = rooms
                    /\ DOMAIN tx' = DOMAIN tx
                    /\ tx'[c] = Append(tx[c], WrongGuessEvent(EventId))
                    /\ \A d \in DOMAIN tx \ {c} : tx'[d] = tx[d]
          /\ SubmitRejected(c, AppWord, AppCanvas) =>
                /\ rooms' = rooms
                /\ tx' = tx]_vars

\* C14 witness: a wrong guess during Drawing was answered on the channel of a
\* connection while another player's connection is open and registered.
C14_Witness ==
    \E c, d \in ConnIds :
        /\ conns[c].player_id # conns[d].player_id
        /\ conns[c].game_id = conns[d].game_id
        /\ IsOpen(c) /\ IsOpen(d) /\ IsCurrent(d)
        /\ conns[c].game_id \in DOMAIN rooms
        /\ rooms[conns[c].game_id].stage.type = "playerDrawing"
        /\ tx[c] # <<>>
        /\ tx[c][Len(tx[c])] = WrongGuessEvent(EventId)

\* C14 witness: a word submission was rejected: one event was handled, two
\* players are connected, and no channel holds more than its replay.
C14_WitnessSubmit ==
    /\ handled = 1
    /\ \E c, d \in ConnIds :
          /\ conns[c].player_id # conns[d].player_id
          /\ conns[c].game_id = conns[d].game_id
          /\ IsCurrent(c) /\ IsCurrent(d)
    /\ \A c \in ConnIds :
          /\ conns[c].pc = "open"
          /\ \A i \in DOMAIN tx[c] : tx[c][i].body.type \in {"youAre", "game"}
          /\ Cardinality({i \in DOMAIN tx[c] : tx[c][i].body.type = "game"}) = 1

\* C15: add_segment and remove_segment leave a Session in Stage Choosing
\* unchanged; in Stage Drawing add_segment appends the segment at the end of
\* the log, remove_segment deletes every segment with the id and keeps the
\* order of the others, and roster, artist, word and canvas stay as they were.
C15_SegmentOps ==
    last.op \in {"add_segment", "remove_segment"} =>
        /\ DOMAIN rooms = DOMAIN last.pre_rooms
        /\ LET pre == last.pre_rooms[last.id]
               post == rooms[last.id]
           IN  IF pre.stage.type = "playerChoosing" THEN post = pre
               ELSE /\ post.id = pre.id
                    /\ post.players = pre.players
                    /\ post.history = pre.history
                    /\ post.stage.type = "playerDrawing"
                    /\ post.stage.player_id = pre.stage.player_id
                    /\ post.stage.word = pre.stage.word
                    /\ post.stage.drawing.canvas = pre.stage.drawing.canvas
                    /\ post.stage.drawing.segments =
                          IF last.op = "add_segment"
                          THEN pre.stage.drawing.segments \o <<last.arg>>
                          ELSE SelectSeq(pre.stage.drawing.segments,
                                         LAMBDA s : s.id # last.arg)

\* C15 witness: remove_segment on a log of three segments, two of them with
\* the id removed and not adjacent to each other.
C15_Witness ==
    /\ last.op = "remove_segment"
    /\ LET pre == last.pre_rooms[last.id]
       IN  /\ pre.stage.type = "playerDrawing"
           /\ Len(pre.stage.drawing.segments) = 3
           /\ pre.stage.drawing.segments[1].id = last.arg
           /\ pre.stage.drawing.segments[2].id # last.arg
           /\ pre.stage.drawing.segments[3].id = last.arg
           /\ Len(pre.players) = 2

\* C15 witness: remove_segment keeps two different segments in their order.
C15_WitnessOrder ==
    /\ last.op = "remove_segment"
    /\ LET pre == last.pre_rooms[last.id]
       IN  /\ pre.stage.type = "playerDrawing"
           /\ Len(pre.stage.drawing.segments) = 3
           /\ pre.stage.drawing.segments[2].id = last.arg
           /\ pre.stage.drawing.segments[1] # pre.stage.drawing.segments[3]
           /\ Len(rooms[last.id].stage.drawing.segments) = 2

\* C15 witness: add_segment on a log that is not empty, and both calls in
\* Stage Choosing.
C15_WitnessAdd ==
    /\ last.op = "add_segment"
    /\ last.pre_rooms[last.id].stage.type = "playerDrawing"
    /\ Len(last.pre_rooms[last.id].stage.drawing.segments) = 2
    /\ last.pre_rooms[last.id].stage.drawing.segments[1] # last.arg

C15_WitnessChoosing ==
    /\ last.op \in {"add_segment", "remove_segment"}
    /\ last.pre_rooms[last.id].stage.type = "playerChoosing"
    /\ Len(last.pre_rooms[last.id].players) = 2

\* The messages a step appends to the channel of connection c
Enqueued(c) == SubSeq(tx'[c], Len(tx[c]) + 1, Len(tx'[c]))

\* C16: the snapshot the Janitor broadcasts for a modified Session is the
\* snapshot of the Session as it is at the broadcast, and it is enqueued once
\* for exactly the roster members of that moment that have a directory entry.
C16_JanitorBroadcastsCurrent ==
    [][JanitorNotify =>
          \A c \in ConnIds :
              /\ DOMAIN tx' = DOMAIN tx
              /\ \A i \in DOMAIN Enqueued(c) :
                    \E game_id \in DOMAIN janitor.all_modified_games \cap DOMAIN rooms :
                        Enqueued(c)[i] = GameEvent(Game_clone(rooms[game_id]))
              /\ \A game_id \in DOMAIN janitor.all_modified_games :
                    Cardinality({i \in DOMAIN Enqueued(c) :
                                    Enqueued(c)[i].body.game.id = game_id})
                    = IF IsCurrent(c) /\ InRoster(conns[c].player_id, game_id)
                      THEN 1 ELSE 0]_vars

\* The channels of the directory entries of the roster members of a room,
\* but of `sender`
Recipients(game_id, sender) ==
    {connections[player_id] :
        player_id \in (PlayerIds(rooms[game_id]) \cap DOMAIN connections) \ {sender}}

\* msg is appended once to each channel of `recipients` and no channel
\* changes otherwise
EnqueuedOnce(recipients, msg) ==
    /\ DOMAIN tx' = DOMAIN tx
    /\ \A d \in DOMAIN tx :
          tx'[d] = IF d \in recipients THEN Append(tx[d], msg) ELSE tx[d]

\* C17: notify_all puts the event once on the directory channel of every
\* roster member that has an entry and on no other channel, notify_others
\* does so for every roster member but the sender's identity, and the task
\* goes on with its handler whatever entries are missing.
C17_Notify ==
    [][\A c \in ConnIds :
          conns[c].game_id \in DOMAIN rooms =>
              /\ NotifyClearDrawing(c) =>
                    /\ EnqueuedOnce(Recipients(conns[c].game_id, NoPlayer), ClearDrawingEvent)
                    /\ conns'[c].pc = "notify_game"
              /\ NotifyGame(c) =>
                    /\ EnqueuedOnce(Recipients(conns[c].game_id, NoPlayer),
                                    GameEvent(conns[c].local))
                    /\ conns'[c].pc = "open"
              /\ NotifyOthers(c) =>
                    /\ EnqueuedOnce(Recipients(conns[c].game_id, conns[c].player_id),
                                    conns[c].local)
                    /\ conns'[c].pc = "open"]_vars

\* C17 witness: notify_all(ClearDrawing) has run, and has reached the sender,
\* in a room with a roster member that has no directory entry.
C17_Witness ==
    \E c \in ConnIds :
        /\ conns[c].pc = "notify_game"
        /\ tx[c][Len(tx[c])] = ClearDrawingEvent
        /\ conns[c].game_id \in DOMAIN rooms
        /\ \E player_id \in PlayerIds(rooms[conns[c].game_id]) :
              player_id \notin DOMAIN connections

\* C17 witness: notify_others has reached the other player and not the sender.
C17_WitnessOthers ==
    \E c, d \in ConnIds :
        /\ conns[c].player_id # conns[d].player_id
        /\ IsCurrent(c) /\ IsCurrent(d)
        /\ conns[c].pc = "open"
        /\ tx[d] # <<>>
        /\ tx[d][Len(tx[d])].body.type = "removeDrawingSegment"
        /\ \A i \in DOMAIN tx[c] : tx[c][i].body.type # "removeDrawingSegment"

\* C17 witness: notify_all has reached two players.
C17_WitnessAll ==
    \E c, d \in ConnIds :
        /\ c # d
        /\ tx[c] # <<>> /\ tx[d] # <<>>
        /\ tx[c][Len(tx[c])] = ClearDrawingEvent
        /\ tx[d][Len(tx[d])] = ClearDrawingEvent

\* C17 witness: notify_all(ClearDrawing) has run while an identity that is
\* not on the roster has an open, registered connection to the room.
C17_WitnessNonMember ==
    \E c, d \in ConnIds :
        /\ conns[c].pc = "notify_game"
        /\ tx[c][Len(tx[c])] = ClearDrawingEvent
        /\ conns[d].game_id = conns[c].game_id
        /\ IsOpen(d) /\ IsCurrent(d)
        /\ ~InRoster(conns[d].player_id, conns[d].game_id)
        /\ \A i \in DOMAIN tx[d] : tx[d][i] # ClearDrawingEvent

\* The task of connection c is over: it returned from handlers::sync or
\* unwound from a panic.
TaskOver(c) == conns[c].pc \in {"done", "panicked"}

\* C18: whichever way the message loop of a connection task ends, the task
\* is not over before disconnected() has run (which it does once, on the way
\* from the loop's end to the task's end).
C18_CleanupRunsOnce ==
    \A c \in ConnIds : TaskOver(c) => conns[c].pc = "done"

(***************************************************************************)
(* SpecTwin: two Sessions that start in Stage Drawing and differ only in   *)
(* the word, kept in `rooms` under the names of TwinRuns.  Every step      *)
(* applies one join, removal or segment operation to both.                 *)
(***************************************************************************)
TwinRuns == {"first", "second"}

\* Games::remove_player on each of the two: a Session left without members
\* is destroyed.
TwinRemoved(player_id) ==
    LET removed == [r \in DOMAIN rooms |-> Game_remove_player(rooms[r], player_id).game]
    IN  [r \in {q \in DOMAIN rooms : removed[q].players # <<>>} |-> removed[r]]

TwinStart ==
    /\ rooms = <<>>
    /\ \E p \in Players, canvas \in CanvasSizes, w1 \in SetupWords, w2 \in Words :
          LET drawing(word) ==
                  Game_submit_word(Game_new(TestGameId, Player(p, SetupNickname)),
                                   p, word, canvas).game
          IN  rooms' = [r \in TwinRuns |-> IF r = "first" THEN drawing(w1) ELSE drawing(w2)]
    /\ UNCHANGED <<pending_ids, reserve, last, issued, was_live, calls>>
    /\ UNCHANGED avars

TwinAddPlayer ==
    /\ rooms # <<>>
    /\ \E p \in Players :
          rooms' = [r \in DOMAIN rooms |-> Game_add_player(rooms[r], Player(p, SetupNickname))]
    /\ UNCHANGED <<pending_ids, reserve, last, issued, was_live, calls>>
    /\ UNCHANGED avars

TwinRemovePlayer ==
    /\ rooms # <<>>
    /\ \E p \in Players : rooms' = TwinRemoved(p)
    /\ UNCHANGED <<pending_ids, reserve, last, issued, was_live, calls>>
    /\ UNCHANGED avars

TwinAddSegment ==
    /\ rooms # <<>>
    /\ \A r \in DOMAIN rooms : Len(iter_drawing(rooms[r])) < MaxSegments
    /\ \E s \in DrawingSegments :
          rooms' = [r \in DOMAIN rooms |-> Game_add_segment(rooms[r], s)]
    /\ UNCHANGED <<pending_ids, reserve, last, issued, was_live, calls>>
    /\ UNCHANGED avars

TwinRemoveSegment ==
    /\ rooms # <<>>
    /\ \E s \in SegmentIds :
          rooms' = [r \in DOMAIN rooms |-> Game_remove_segment(rooms[r], s)]
    /\ UNCHANGED <<pending_ids, reserve, last, issued, was_live, calls>>
    /\ UNCHANGED avars

NextTwin ==
    \/ TwinStart
    \/ TwinAddPlayer
    \/ TwinRemovePlayer
    \/ TwinAddSegment
    \/ TwinRemoveSegment

SpecTwin == Init /\ [][NextTwin]_vars

\* C19: two Sessions that differed only in the word and went through the
\* same joins, removals and segment operations have the same roster (the
\* same recipients), the same room-state snapshot event and the same
\* segment replay.
C19_SnapshotIndependentOfWord ==
    /\ DOMAIN rooms \in {{}, TwinRuns}
    /\ rooms # <<>> =>
          /\ rooms["first"].players = rooms["second"].players
          /\ GameEvent(rooms["first"]) = GameEvent(rooms["second"])
          /\ GameEvent(Game_clone(rooms["first"])) = GameEvent(Game_clone(rooms["second"]))
          /\ iter_drawing(rooms["first"]) = iter_drawing(rooms["second"])

\* C19 witness: the two Sessions are in Stage Drawing with words that differ
\* also when lowercased, two members and a segment log that is not empty.
C19_Witness ==
    /\ rooms # <<>>
    /\ IsDrawing(rooms["first"].stage)
    /\ IsDrawing(rooms["second"].stage)
    /\ to_lowercase(rooms["first"].stage.word) # to_lowercase(rooms["second"].stage.word)
    /\ rooms["second"].stage.word # <<>>
    /\ Len(rooms["first"].players) = 2
    /\ Len(iter_drawing(rooms["first"])) = 2

(***************************************************************************)
(* SpecReplay: clients connect, reconnect and leave; once all connections  *)
(* but the last have been accepted, the Session of a room goes through     *)
(* word submissions, guesses and segment operations (the first critical    *)
(* sections of on_message); then the last connection opens.                *)
(***************************************************************************)
\* Every connection but the last has been accepted.
LastToOpen == NEXT_CONN_ID = MaxConns

NextReplay ==
    \/ CreateGame
    \/ ReserveStep
    \/ \E game_id \in pending_ids \cup DOMAIN rooms :
          \/ \E player_id \in UsedIdentities : Sync(player_id, game_id, FALSE, SetupNickname)
          \/ /\ Cardinality(UsedIdentities) < Len(AppPlayers)
             /\ Sync(AppPlayers[Cardinality(UsedIdentities) + 1], game_id, TRUE, SetupNickname)
    \/ \E c \in ConnIds : StreamEnd(c)
    \/ \E c \in ConnIds : Disconnected(c)
    \/ /\ LastToOpen
       /\ \E c \in ConnIds :
             /\ IsOpen(c)
             /\ CallSubmitWord(conns[c].game_id, conns[c].player_id, AppWord, AppCanvas, FALSE)
    \/ /\ LastToOpen
       /\ \E c \in ConnIds :
             /\ IsOpen(c)
             /\ CallGuessWord(conns[c].game_id, conns[c].player_id, AppWord, FALSE)
    \/ /\ LastToOpen
       /\ \E c \in ConnIds, s \in DrawingSegments :
             IsOpen(c) /\ CallAddSegment(conns[c].game_id, s, FALSE)
    \/ /\ LastToOpen
       /\ \E c \in ConnIds, s \in SegmentIds :
             IsOpen(c) /\ CallRemoveSegment(conns[c].game_id, s, FALSE)

SpecReplay == Init /\ [][NextReplay]_vars

\* The step opens connection c
Opens(c) == c = NEXT_CONN_ID /\ NEXT_CONN_ID' = c + 1

\* C20: the channel of a connection that opens holds, all taken from the
\* state in which init leaves the Session: the identity-assignment event if
\* and only if the client supplied no identity, then one room-state snapshot
\* of the joined Session, then one segment-added event per segment of the
\* log in log order, none in Stage Choosing; no other channel changes.
C20_Replay ==
    [][\A c \in 1..MaxConns :
          Opens(c) =>
              LET me == conns'[c]
                  game == rooms'[me.game_id]
                  supplied == me.player_id \in UsedIdentities
                  segments == IF game.stage.type = "playerDrawing"
                              THEN game.stage.drawing.segments ELSE <<>>
                  identity == IF supplied THEN <<>>
                              ELSE <<YouAreEvent(CHOOSE p \in {game.players[i] : i \in DOMAIN game.players} :
                                                     p.id = me.player_id)>>
              IN  /\ DOMAIN tx' = DOMAIN tx \cup {c}
                  /\ \A d \in DOMAIN tx : tx'[d] = tx[d]
                  /\ Len(tx'[c]) = Len(identity) + 1 + Len(segments)
                  /\ SubSeq(tx'[c], 1, Len(identity)) = identity
                  /\ tx'[c][Len(identity) + 1] = GameEvent(game)
                  /\ \A i \in DOMAIN segments :
                        tx'[c][Len(identity) + 1 + i] = AddDrawingSegmentEvent(segments[i])
                  /\ me.player_id \in PlayerIds(game)]_vars

\* C20 witness: a new player's connection opened on a Session in Stage
\* Drawing whose log held two different segments.
C20_Witness ==
    \E c \in ConnIds :
        /\ Len(tx[c]) = 4
        /\ tx[c][1].body.type = "youAre"
        /\ tx[c][2].body.type = "game"
        /\ tx[c][3].body.type = "addDrawingSegment"
        /\ tx[c][4].body.type = "addDrawingSegment"
        /\ tx[c][3] # tx[c][4]

\* C20 witness: a connection opened with a supplied identity on a Session in
\* Stage Choosing.
C20_WitnessSupplied ==
    \E c \in ConnIds :
        /\ c > 1
        /\ conns[c].pc = "open"
        /\ Len(tx[c]) = 1
        /\ tx[c][1].body.type = "game"
        /\ tx[c][1].body.game.stage.type = "playerChoosing"
        /\ Len(tx[c][1].body.game.players) = 2

\* No handler is between its critical sections.
HandlersFinished == \A c \in ConnIds : conns[c].pc \in {"open", "closed", "done", "panicked"}

\* The room-state snapshots on the channel of connection c, oldest first
Snapshots(c) == SelectSeq(tx[c], LAMBDA msg : msg.body.type = "game")
LastSnapshot(c) == Snapshots(c)[Len(Snapshots(c))].body.game

\* C21 (as stated): when all handlers have finished, the last room-state
\* snapshot on the channel of each roster member with a directory entry
\* shows the Session's current roster and Stage.
C21_LastSnapshotCurrent ==
    HandlersFinished =>
        \A c \in ConnIds :
            (IsCurrent(c) /\ InRoster(conns[c].player_id, conns[c].game_id)) =>
                /\ Snapshots(c) # <<>>
                /\ LastSnapshot(c) = SerializeGame(rooms[conns[c].game_id])

\* C21 (its case, the Stage): when all handlers have finished, the last
\* room-state snapshot on the channel of each roster member with a directory
\* entry that shows the current roster also shows the current Stage.
C21_LastSnapshotStage ==
    HandlersFinished =>
        \A c \in ConnIds :
            (/\ IsCurrent(c)
             /\ InRoster(conns[c].player_id, conns[c].game_id)
             /\ Snapshots(c) # <<>>
             /\ LastSnapshot(c).players = rooms[conns[c].game_id].players) =>
                LastSnapshot(c).stage = SerializeStage(rooms[conns[c].game_id].stage)

\* The step is an event handler's critical section or a notify_all /
\* notify_others call of connection c: each begins with a room lookup.
LooksUpRoom(c) ==
    \/ conns[c].pc = "open" /\ handled' = handled + 1
    \/ conns[c].pc \in {"submit_clear", "notify_game", "notify_others"} /\ conns'[c] # conns[c]

\* C22: every room lookup made for a connection whose init has completed
\* finds a live Session.
C22_LookupFindsSession ==
    [][\A c \in ConnIds :
          (LooksUpRoom(c) /\ conns'[c].pc # conns[c].pc) =>
              /\ conns[c].game_id \in DOMAIN rooms
              /\ conns'[c].pc # "panicked"]_vars

\* Connection c is registered and its disconnect handler has not run.
Live(c) == conns[c].pc \notin {"done", "panicked"}

\* The live connections of an identity
LiveConns(player_id) == {c \in ConnIds : conns[c].player_id = player_id /\ Live(c)}

\* The greatest member of a non-empty set of instance ids
Highest(S) == CHOOSE c \in S : \A d \in S : d <= c

\* C23: an identity with a registered connection whose disconnect handler
\* has not run has a directory entry, and the entry is the one of those
\* connections with the highest instance id.
C23_DirectoryHoldsNewest ==
    \A player_id \in AppIdentities :
        LiveConns(player_id) # {} =>
            /\ player_id \in DOMAIN connections
            /\ connections[player_id] = Highest(LiveConns(player_id))

\* C24: no identity has both a directory entry and an exit record.
C24_EntryExcludesExitRecord ==
    DOMAIN connections \cap DOMAIN exited_players = {}

\* C25: the sweep's removal step removes an identity from a roster, and its
\* last step drops an identity's exit record, only if that identity then
\* still has an exit record older than REMOVE_PLAYER_AFTER, as the sweep's
\* first step saw it (a record written since is younger).
C25_SweepActsOnSeenRecord ==
    [][/\ (janitor.pc = "remove" /\ janitor'.pc = "notify") =>
              \A player_id \in janitor.remove_players :
                  (\E game_id \in DOMAIN rooms : InRoster(player_id, game_id)) =>
                      Expired(player_id)
       /\ (janitor.pc = "clear" /\ janitor'.pc = "scan") =>
              \A player_id \in janitor.remove_players \cap DOMAIN exited_players :
                  Expired(player_id)]_vars

\* C25, the removal step alone
C25_RemovalActsOnSeenRecord ==
    [][(janitor.pc = "remove" /\ janitor'.pc = "notify") =>
          \A player_id \in janitor.remove_players :
              (\E game_id \in DOMAIN rooms : InRoster(player_id, game_id)) =>
                  Expired(player_id)]_vars

\* C25, the last step alone
C25_ClearActsOnSeenRecord ==
    [][(janitor.pc = "clear" /\ janitor'.pc = "scan") =>
          \A player_id \in janitor.remove_players \cap DOMAIN exited_players :
              Expired(player_id)]_vars

\* C26: a segment-added or segment-removed event is put on another player's
\* channel by notify_others only if the handler's call changed the segment
\* log; in Stage Choosing, where the call changes nothing, none is sent.
C26_SegmentEventsFollowChanges ==
    [][\A c \in ConnIds :
          (/\ conns[c].pc = "open"
           /\ conns'[c].pc = "notify_others"
           /\ rooms' = rooms) =>
              Recipients(conns[c].game_id, conns[c].player_id) = {}]_vars

\* The segment events on the channel of connection c
SegmentEvents(c) ==
    SelectSeq(tx[c], LAMBDA msg : msg.body.type \in {"addDrawingSegment", "removeDrawingSegment"})

\* C26, in the runs where the only event handled so far found the Session in
\* Stage Choosing and left it there (a word submission would have moved it to
\* Drawing): no channel holds a segment event.
C26_NoSegmentEventInChoosing ==
    (/\ handled <= 1
     /\ \A game_id \in DOMAIN rooms : IsChoosing(rooms[game_id].stage)) =>
        \A c \in ConnIds : SegmentEvents(c) = <<>>

\* C27: what a sweep's removal step leaves in all_modified_games to be
\* broadcast is, for each Session whose roster the step changed and that
\* still exists after the step, the one snapshot of the Session as it is
\* after the step, and nothing for a Session the step destroyed.
C27_SweepCollectsFinalSnapshots ==
    [][(janitor.pc = "remove" /\ janitor'.pc = "notify") =>
          /\ \A game_id \in DOMAIN janitor'.all_modified_games :
                /\ game_id \in DOMAIN rooms'
                /\ janitor'.all_modified_games[game_id] = Game_clone(rooms'[game_id])
          /\ \A game_id \in DOMAIN rooms' :
                rooms'[game_id].players # rooms[game_id].players =>
                    game_id \in DOMAIN janitor'.all_modified_games]_vars

\* C27, the broadcast step: nothing is enqueued for a Session that does
\* not exist.
C27_NoBroadcastOfDestroyed ==
    [][JanitorNotify =>
          \A c \in ConnIds : \A i \in DOMAIN Enqueued(c) :
              Enqueued(c)[i].body.game.id \in DOMAIN rooms]_vars

\* C28: when Session remove_player(id) is called with an id that was not in
\* the roster, or was in it but was neither chooser nor artist, the Stage is
\* unchanged and the other members keep their order.
C28_RemovePlayerFrame ==
    (last.op = "remove_player" /\ TestGameId \in DOMAIN last.pre_rooms) =>
        LET pre == last.pre_rooms[TestGameId]
            member == last.by \in PlayerIds(pre)
        IN  (/\ TestGameId \in DOMAIN rooms
             /\ ~member \/ pre.stage.player_id # last.by) =>
                /\ rooms[TestGameId].stage = pre.stage
                /\ rooms[TestGameId].players =
                      SelectSeq(pre.players, LAMBDA p : p.id # last.by)

\* C28, the return value: remove_player(id) returns true exactly when id was
\* in the roster before the call (a Session it returned true for is then
\* destroyed or among the modified ones).
C28_ReturnsMembership ==
    (last.op = "remove_player" /\ TestGameId \in DOMAIN last.pre_rooms) =>
        ((TestGameId \notin DOMAIN rooms \/ last.ret # <<>>)
            <=> last.by \in PlayerIds(last.pre_rooms[TestGameId]))

=============================================================================
